---- MODULE Spec2Model ----
(***************************************************************************)
(* A model of GLFundamentals.hpp (namespace gl): the error check, the      *)
(* normal-matrix and perspective constructors of the algebra library, and  *)
(* the shader build pipeline (read_shader_source, report_*_status,         *)
(* init_shader, init_program).                                             *)
(*                                                                         *)
(* Four specifications share the module, one per part of the header:       *)
(*   SpecNormal  normal(M) on 4x4 matrices of integer-valued floats        *)
(*   SpecPersp   the two perspective() overloads on one frustum            *)
(*   SpecCheck   check(file, line) after driver calls                      *)
(*   SpecBuild   init_program(vert_name, frag_name), step by step          *)
(* Each leaves the variables of the other parts at their idle values.      *)
(***************************************************************************)
EXTENDS Integers, Sequences, FiniteSets, TLC

VARIABLES
    M,          \* normal: the argument, a 4x4 matrix (rows of GLfloat)
    d,          \* normal: the local d as the build evaluated it
    N,          \* normal: the returned mat3, or NoValue before the call
    frustum,    \* perspective: the arguments [v, a, n, f]
    P4,         \* perspective(v, a, n, f), or NoValue before the call
    P6,         \* perspective(l, r, b, t, n, f), or NoValue before the call
    gl_error,   \* check: the driver's error flag, read by glGetError()
    chk,        \* check: the running call [pc, file, line, err]
    seen,       \* check: the calls made so far, <<file, line, error code>>
    err_out,    \* check: the lines written to fp (stderr)
    process,    \* check: "running", or "aborted" once abort() was called
    pc,         \* build: the statement init_program(names) is at
    files,      \* build: the state of the two named files
    vert_source, frag_source,   \* build: the source buffers, NULL if none
    vert_shader, frag_shader,   \* build: the shader names, 0 if none
    program,    \* build: the local program of init_program(names)
    result,     \* build: the value init_program(names) returned
    objects,    \* build: the driver's shader and program objects, by name
    nbuf,       \* build: the number of buffers calloc() has returned
    heap,       \* build: "intact", or "corrupt" once fread() overran a block
    trace       \* build: the library and driver calls made, in order

algebra_vars == <<M, d, N, frustum, P4, P6>>
check_vars   == <<gl_error, chk, seen, err_out, process>>

build_vars   == <<pc, files, vert_source, frag_source, vert_shader,
                   frag_shader, program, result, objects, nbuf, heap, trace>>

vars == <<M, d, N, frustum, P4, P6, gl_error, chk, seen, err_out, process,
          pc, files, vert_source, frag_source, vert_shader, frag_shader,
          program, result, objects, nbuf, heap, trace>>

NoValue == "none"

(***************************************************************************)
(* GLfloat on integer values.  A GLfloat is an IEEE-754 binary32 number:   *)
(* 24 significant bits, round to nearest, ties to even.  Every value of    *)
(* SpecNormal is an integer below 2^31 in magnitude, so a float operation  *)
(* that rounds is the exact integer operation followed by F32.             *)
(***************************************************************************)
FLT_MANT_DIG == 24

Abs(x) == IF x < 0 THEN -x ELSE x

\* The number of low bits an integer of magnitude a loses in a GLfloat.
DropBits(a) == CHOOSE k \in 0..8 : a < 2^(FLT_MANT_DIG + k)
                                   /\ (k = 0 \/ a >= 2^(FLT_MANT_DIG + k - 1))

F32(x) ==
    LET a    == Abs(x)
        k    == DropBits(a)
        unit == 2^k
        q    == a \div unit
        r    == a % unit
        up   == (2 * r > unit) \/ (2 * r = unit /\ q % 2 = 1)
        m    == (IF up THEN q + 1 ELSE q) * unit
    IN  IF x < 0 THEN -m ELSE m

FMul(a, b) == F32(a * b)
FAdd(a, b) == F32(a + b)
FSub(a, b) == F32(a - b)

(***************************************************************************)
(* The operations inside one floating expression.  The language lets the   *)
(* build keep an intermediate result to more than GLfloat precision: an    *)
(* SSE build rounds every product and sum to binary32; a build with fused  *)
(* multiply-add (g++ -mfma, -ffp-contract=fast by default) feeds the exact *)
(* product into the following sum; an x87 build (-mfpmath=387, 32-bit x86) *)
(* holds intermediates, and at -O2 the local they initialise, to 64        *)
(* significant bits, which is exact for the integers met here.  So an      *)
(* operation whose exact result is x leaves F32(x) or x, and an operation  *)
(* on sets of possible operands leaves the set of possible results.        *)
(***************************************************************************)
Held(x) == {F32(x), x}

XMul(X, Y) == UNION {Held(x * y) : x \in X, y \in Y}
XAdd(X, Y) == UNION {Held(x + y) : x \in X, y \in Y}
XSub(X, Y) == UNION {Held(x - y) : x \in X, y \in Y}

(***************************************************************************)
(* mat3 and mat4: row-wise, indexed from 0 as in the source.               *)
(***************************************************************************)
At(A, i, j) == A[i + 1][j + 1]

\* mat3(): the identity.
mat3 == << <<1, 0, 0>>, <<0, 1, 0>>, <<0, 0, 1>> >>

\* mat3(m00, ..., m22).
mat3of(m00, m01, m02, m10, m11, m12, m20, m21, m22) ==
    << <<m00, m01, m02>>, <<m10, m11, m12>>, <<m20, m21, m22>> >>

\* The determinant d of normal(): the values the builds can give the
\* local, the expression taken left to right.
normal_d(A) ==
    LET t1 == XMul(XMul({At(A,0,0)}, {At(A,1,1)}), {At(A,2,2)})
        t2 == XMul(XMul({At(A,0,0)}, {At(A,1,2)}), {At(A,2,1)})
        t3 == XMul(XMul({At(A,0,1)}, {At(A,1,2)}), {At(A,2,0)})
        t4 == XMul(XMul({At(A,0,1)}, {At(A,1,0)}), {At(A,2,2)})
        t5 == XMul(XMul({At(A,0,2)}, {At(A,1,0)}), {At(A,2,1)})
        t6 == XMul(XMul({At(A,0,2)}, {At(A,1,1)}), {At(A,2,0)})
    IN  XSub(XAdd(XSub(XAdd(XSub(t1, t2), t3), t4), t5), t6)

\* The mat3 of the true branch of normal(): the nine cofactors.  A product
\* of two entries and a sum of two such products stay below 2^24 here, so
\* every build computes them exactly and alike.
normal_cofactors(A) ==
    mat3of(FAdd(FMul(-At(A,1,2), At(A,2,1)), FMul(At(A,1,1), At(A,2,2))),
           FSub(FMul( At(A,1,2), At(A,2,0)), FMul(At(A,1,0), At(A,2,2))),
           FAdd(FMul(-At(A,1,1), At(A,2,0)), FMul(At(A,1,0), At(A,2,1))),
           FSub(FMul( At(A,0,2), At(A,2,1)), FMul(At(A,0,1), At(A,2,2))),
           FAdd(FMul(-At(A,0,2), At(A,2,0)), FMul(At(A,0,0), At(A,2,2))),
           FSub(FMul( At(A,0,1), At(A,2,0)), FMul(At(A,0,0), At(A,2,1))),
           FAdd(FMul(-At(A,0,2), At(A,1,1)), FMul(At(A,0,1), At(A,1,2))),
           FSub(FMul( At(A,0,2), At(A,1,0)), FMul(At(A,0,0), At(A,1,2))),
           FAdd(FMul(-At(A,0,1), At(A,1,0)), FMul(At(A,0,0), At(A,1,1))))

\* A slip: the zero-determinant test dropped.
normal_unguarded(A) ==
    {[d |-> x, N |-> normal_cofactors(A)] : x \in normal_d(A)}

\* normal(M): the outcomes [d, N], one for each value of d.
normal(A) ==
    {[d |-> x, N |-> IF Abs(x) > 0 THEN normal_cofactors(A) ELSE mat3] :
        x \in normal_d(A)}

(***************************************************************************)
(* SpecNormal: normal() applied to a matrix drawn from Entries.            *)
(***************************************************************************)
\* Entries are 0, 1 and Big.  Big is odd and just above 2^8: a product of
\* three entries stays below 2^31, and Big^3 passes 2^24, where a GLfloat
\* starts to round odd integers.
Big == 257

Entries == {0, 1, Big}

Row3 == Entries \X Entries \X Entries

Mat4From(r0, r1, r2, w) ==
    << <<r0[1], r0[2], r0[3], w>>,
       <<r1[1], r1[2], r1[3], w>>,
       <<r2[1], r2[2], r2[3], w>>,
       <<0, 0, 0, 1>> >>

NormalInit ==
    /\ \E r0 \in Row3, r1 \in Row3, r2 \in Row3, w \in {0, 1} :
           M = Mat4From(r0, r1, r2, w)
    /\ d = NoValue
    /\ N = NoValue

NormalIdle == M = NoValue /\ d = NoValue /\ N = NoValue

CallNormal ==
    /\ M # NoValue
    /\ N = NoValue
    /\ \E r \in normal(M) :
          /\ d' = r.d
          /\ N' = r.N
    /\ UNCHANGED <<M, frustum, P4, P6>>
    /\ UNCHANGED <<check_vars, build_vars>>

(***************************************************************************)
(* GLfloat on fractions.  perspective() divides, so SpecPersp keeps each   *)
(* value as <<sign, numerator, denominator>> in lowest terms, with the     *)
(* IEEE-754 results of a division by zero: <<s, 1, 0>> is the infinity of  *)
(* sign s and <<1, 0, 0>> is NaN; zero keeps its sign.  Quotients are kept *)
(* exact: rounding a quotient depends only on its real value, and the two  *)
(* overloads differ by exact doublings.                                    *)
(***************************************************************************)
RECURSIVE Gcd(_, _)
Gcd(a, b) == IF b = 0 THEN a ELSE Gcd(b, a % b)

NaN == <<1, 0, 0>>

IsNaN(a)  == a[2] = 0 /\ a[3] = 0
IsInf(a)  == a[2] # 0 /\ a[3] = 0
IsZero(a) == a[2] = 0 /\ a[3] # 0

QNorm(s, n, q) ==
    IF q = 0 THEN (IF n = 0 THEN NaN ELSE <<s, 1, 0>>)
    ELSE LET g == Gcd(n, q) IN <<s, n \div g, q \div g>>

\* An int literal of the source converted to GLfloat.
QInt(k) == <<IF k < 0 THEN -1 ELSE 1, Abs(k), 1>>

QNeg(a) == IF IsNaN(a) THEN NaN ELSE <<-a[1], a[2], a[3]>>

QMul(a, b) ==
    IF IsNaN(a) \/ IsNaN(b) THEN NaN
    ELSE QNorm(a[1] * b[1], a[2] * b[2], a[3] * b[3])

QDiv(a, b) ==
    IF IsNaN(a) \/ IsNaN(b) THEN NaN
    ELSE QNorm(a[1] * b[1], a[2] * b[3], a[3] * b[2])

QAdd(a, b) ==
    IF IsNaN(a) \/ IsNaN(b) THEN NaN
    ELSE IF IsInf(a) /\ IsInf(b) THEN (IF a[1] = b[1] THEN a ELSE NaN)
    ELSE IF IsInf(a) THEN a
    ELSE IF IsInf(b) THEN b
    ELSE LET num == a[1] * a[2] * b[3] + b[1] * b[2] * a[3]
         IN  IF num = 0 THEN <<IF a[1] = b[1] THEN a[1] ELSE 1, 0, 1>>
             ELSE QNorm(IF num < 0 THEN -1 ELSE 1, Abs(num), a[3] * b[3])

QSub(a, b) == QAdd(a, QNeg(b))

\* operator== of two GLfloat: NaN equals nothing, -0 equals +0.
QEq(a, b) ==
    /\ ~IsNaN(a) /\ ~IsNaN(b)
    /\ (a = b \/ (IsZero(a) /\ IsZero(b)))

\* mat4(m00, ..., m33).
mat4of(m00, m01, m02, m03, m10, m11, m12, m13, m20, m21, m22, m23, m30, m31, m32, m33) ==
    << <<m00, m01, m02, m03>>, <<m10, m11, m12, m13>>,
       <<m20, m21, m22, m23>>, <<m30, m31, m32, m33>> >>

\* tan(v / 2).  A field of view v is kept as the record of the tangent of
\* its half angle, the only way perspective() reads it.
tan_half(v) == v.tan2

\* The locals y and x of perspective(v, a, n, f).
perspective_y(v, n) == QMul(n, tan_half(v))
perspective_x(v, a, n) == QMul(perspective_y(v, n), a)

\* perspective(GLfloat v, GLfloat a, GLfloat n, GLfloat f).
perspective(v, a, n, f) ==
    LET y == perspective_y(v, n)
        x == perspective_x(v, a, n)
    IN  mat4of(QDiv(n, x), QInt(0), QInt(0), QInt(0), QInt(0),
               QDiv(n, y), QInt(0), QInt(0), QInt(0), QInt(0),
               QDiv(QAdd(n, f), QSub(n, f)),
               QDiv(QMul(QInt(2), QMul(n, f)), QSub(n, f)),
               QInt(0), QInt(0), QInt(-1), QInt(0))

\* A slip: the numerators n + n written as n.
perspective6_single_n(l, r, b, t, n, f) ==
    mat4of(QDiv(n, QSub(r, l)), QInt(0),
           QDiv(QAdd(r, l), QSub(r, l)), QInt(0), QInt(0),
           QDiv(n, QSub(t, b)),
           QDiv(QAdd(t, b), QSub(t, b)), QInt(0), QInt(0), QInt(0),
           QDiv(QAdd(n, f), QSub(n, f)),
           QDiv(QMul(QInt(2), QMul(n, f)), QSub(n, f)),
           QInt(0), QInt(0), QInt(-1), QInt(0))

\* perspective(GLfloat l, GLfloat r, GLfloat b, GLfloat t, GLfloat n,
\* GLfloat f).
perspective6(l, r, b, t, n, f) ==
    mat4of(QDiv(QAdd(n, n), QSub(r, l)), QInt(0),
           QDiv(QAdd(r, l), QSub(r, l)), QInt(0), QInt(0),
           QDiv(QAdd(n, n), QSub(t, b)),
           QDiv(QAdd(t, b), QSub(t, b)), QInt(0), QInt(0), QInt(0),
           QDiv(QAdd(n, f), QSub(n, f)),
           QDiv(QMul(QInt(2), QMul(n, f)), QSub(n, f)),
           QInt(0), QInt(0), QInt(-1), QInt(0))

(***************************************************************************)
(* SpecPersp: both overloads applied to one frustum.  The arguments are    *)
(* the fractions p/q with |p| <= MaxQ and 1 <= q <= MaxQ.                  *)
(***************************************************************************)
MaxQ == 2

Fractions ==
    {QNorm(IF p < 0 THEN -1 ELSE 1, Abs(p), q) : p \in -MaxQ..MaxQ, q \in 1..MaxQ}

PerspInit ==
    /\ frustum \in [v : [tan2 : Fractions], a : Fractions,
                    n : Fractions, f : Fractions]
    /\ P4 = NoValue
    /\ P6 = NoValue

PerspIdle == frustum = NoValue /\ P4 = NoValue /\ P6 = NoValue

\* The half height and half width of the frustum at the near plane.
HalfY == perspective_y(frustum.v, frustum.n)
HalfX == perspective_x(frustum.v, frustum.a, frustum.n)

CallPerspective4 ==
    /\ P4 = NoValue
    /\ P4' = perspective(frustum.v, frustum.a, frustum.n, frustum.f)
    /\ UNCHANGED <<M, d, N, frustum, P6>>
    /\ UNCHANGED <<check_vars, build_vars>>

\* The caller derives l = -x, r = x, b = -y, t = y from the same frustum.
CallPerspective6 ==
    /\ P6 = NoValue
    /\ P6' = perspective6(QNeg(HalfX), HalfX, QNeg(HalfY), HalfY,
                          frustum.n, frustum.f)
    /\ UNCHANGED <<M, d, N, frustum, P4>>
    /\ UNCHANGED <<check_vars, build_vars>>

(***************************************************************************)
(* check(file, line, fp): the switch on glGetError().  The driver keeps    *)
(* one error flag; a failing command sets it when it is clear, and         *)
(* glGetError() returns it and clears it.                                  *)
(***************************************************************************)
GL_NO_ERROR          == "GL_NO_ERROR"
GL_INVALID_ENUM      == "GL_INVALID_ENUM"
GL_INVALID_VALUE     == "GL_INVALID_VALUE"
GL_INVALID_OPERATION == "GL_INVALID_OPERATION"
GL_OUT_OF_MEMORY     == "GL_OUT_OF_MEMORY"

\* Every value glGetError() can return: the four of the switch, no error,
\* and the codes the switch has no case for.
ErrorCodes ==
    {GL_NO_ERROR, GL_INVALID_ENUM, GL_INVALID_VALUE, GL_INVALID_OPERATION,
     GL_OUT_OF_MEMORY, "GL_INVALID_FRAMEBUFFER_OPERATION",
     "GL_STACK_OVERFLOW", "GL_STACK_UNDERFLOW", "GL_CONTEXT_LOST"}

NoCase == "no case"

\* A slip: the last case label left out.
check_case_three(e) ==
    CASE e = GL_INVALID_ENUM      -> "Invalid Enum"
      [] e = GL_INVALID_VALUE     -> "Invalid Value"
      [] e = GL_INVALID_OPERATION -> "Invalid Operation"
      [] OTHER                    -> NoCase

\* The case the switch of check() takes on e: the text it prints, or NoCase.
check_case(e) ==
    CASE e = GL_INVALID_ENUM      -> "Invalid Enum"
      [] e = GL_INVALID_VALUE     -> "Invalid Value"
      [] e = GL_INVALID_OPERATION -> "Invalid Operation"
      [] e = GL_OUT_OF_MEMORY     -> "Out of Memory"
      [] OTHER                    -> NoCase

MaxChecks == 2
MaxLine   == 2

Files == {"main.cpp", "draw.cpp"}
Lines == 1..MaxLine

ChkIdle == [pc |-> "idle", file |-> "", line |-> 0, err |-> GL_NO_ERROR]

CheckInit ==
    /\ gl_error = GL_NO_ERROR
    /\ chk = ChkIdle
    /\ seen = <<>>
    /\ err_out = <<>>
    /\ process = "running"

CheckIdle == CheckInit

\* A driver command of the application: it may fail, and the flag keeps the
\* first error until glGetError() reads it.
DriverCommand ==
    /\ process = "running"
    /\ chk.pc = "idle"
    /\ Len(seen) < MaxChecks
    /\ gl_error = GL_NO_ERROR
    /\ \E e \in ErrorCodes \ {GL_NO_ERROR} : gl_error' = e
    /\ UNCHANGED <<chk, seen, err_out, process>>
    /\ UNCHANGED <<algebra_vars, build_vars>>

\* GL_CHECK_ERROR(): check(__FILE__, __LINE__) up to the case it takes.
CheckSwitch ==
    /\ process = "running"
    /\ chk.pc = "idle"
    /\ Len(seen) < MaxChecks
    /\ \E file \in Files, line \in Lines :
          /\ seen' = Append(seen, <<file, line, gl_error>>)
          /\ chk' = IF check_case(gl_error) = NoCase
                    THEN ChkIdle
                    ELSE [pc |-> "fprintf", file |-> file, line |-> line,
                          err |-> gl_error]
    /\ gl_error' = GL_NO_ERROR
    /\ UNCHANGED <<err_out, process>>
    /\ UNCHANGED <<algebra_vars, build_vars>>

\* fprintf(fp, "%s:%d: <kind>\n", file, line).
CheckPrint ==
    /\ chk.pc = "fprintf"
    /\ err_out' = Append(err_out, <<chk.file, chk.line, check_case(chk.err)>>)
    /\ chk' = [chk EXCEPT !.pc = "abort"]
    /\ UNCHANGED <<gl_error, seen, process>>
    /\ UNCHANGED <<algebra_vars, build_vars>>

\* abort().
CheckAbort ==
    /\ chk.pc = "abort"
    /\ process' = "aborted"
    /\ chk' = [chk EXCEPT !.pc = "dead"]
    /\ UNCHANGED <<gl_error, seen, err_out>>
    /\ UNCHANGED <<algebra_vars, build_vars>>

(***************************************************************************)
(* The shader build pipeline.  Every library and driver call of a build is *)
(* appended to trace as an event [op, stage, h, s, n]: h is a buffer or an *)
(* object name, s a status, n a size or a length.                          *)
(***************************************************************************)
NULL == 0

Ev(op, stage, h, s, n) == [op |-> op, stage |-> stage, h |-> h, s |-> s, n |-> n]

EvCalloc(what, id, size)    == Ev("calloc", what, id, TRUE, size)
EvFree(id)                  == Ev("free", "-", id, TRUE, 0)
EvPrint(text)               == Ev("fprintf", text, 0, TRUE, 0)
EvCreateShader(stage, h)    == Ev("glCreateShader", stage, h, TRUE, 0)
EvShaderSource(stage, h, p) == Ev("glShaderSource", stage, h, TRUE, p)
EvCompileShader(stage, h)   == Ev("glCompileShader", stage, h, TRUE, 0)
EvShaderiv(stage, h, s, n)  == Ev("glGetShaderiv", stage, h, s, n)
EvShaderInfoLog(h, n, p)    == Ev("glGetShaderInfoLog", "-", h, TRUE, n)
EvDeleteShader(h)           == Ev("glDeleteShader", "-", h, TRUE, 0)
EvCreateProgram(h)          == Ev("glCreateProgram", "-", h, TRUE, 0)
EvAttachShader(p, h)        == Ev("glAttachShader", "-", p, TRUE, h)
EvLinkProgram(p)            == Ev("glLinkProgram", "-", p, TRUE, 0)
EvProgramiv(p, s, n)        == Ev("glGetProgramiv", "-", p, s, n)
EvProgramInfoLog(p, n, q)   == Ev("glGetProgramInfoLog", "-", p, TRUE, n)
EvDeleteProgram(p)          == Ev("glDeleteProgram", "-", p, TRUE, 0)

MaxName    == 3     \* the driver names objects 1..MaxName
MaxLogLen  == 2     \* GL_INFO_LOG_LENGTH is 0..MaxLogLen
MaxFileLen == 1     \* a file that is not empty holds 1..MaxFileLen bytes

Names == 1..MaxName

(***************************************************************************)
(* The driver's objects.  Shader and program names share one name space; a *)
(* name is handed out again once its object is gone.  A shader deleted     *)
(* while attached is flagged, and goes with its program.                   *)
(***************************************************************************)
NoObject == [kind |-> "free", status |-> FALSE, flagged |-> FALSE, attached |-> {}]

FreeNames(o) == {h \in Names : o[h].kind = "free"}

IsAttached(o, h) == \E p \in Names : o[p].kind = "program" /\ h \in o[p].attached

glCreateShader(o, h) ==
    IF h = 0 THEN o
    ELSE [o EXCEPT ![h] = [NoObject EXCEPT !.kind = "shader"]]

glCompileShader(o, h, s) == [o EXCEPT ![h].status = s]

glDeleteShader(o, h) ==
    IF h = 0 \/ o[h].kind # "shader" THEN o
    ELSE IF IsAttached(o, h) THEN [o EXCEPT ![h].flagged = TRUE]
    ELSE [o EXCEPT ![h] = NoObject]

glCreateProgram(o, h) ==
    IF h = 0 THEN o
    ELSE [o EXCEPT ![h] = [NoObject EXCEPT !.kind = "program"]]

glAttachShader(o, p, h) == [o EXCEPT ![p].attached = @ \cup {h}]

glLinkProgram(o, p, s) == [o EXCEPT ![p].status = s]

glDeleteProgram(o, p) ==
    IF p = 0 \/ o[p].kind # "program" THEN o
    ELSE [h \in Names |->
            IF h = p \/ (h \in o[p].attached /\ o[h].flagged)
            THEN NoObject ELSE o[h]]

(***************************************************************************)
(* read_shader_source(name).  fs is the state of the named file and id the *)
(* buffer calloc() returns when it succeeds.  The result is the set of     *)
(* outcomes [p, ev, overrun]: the returned pointer, the calls made, and    *)
(* whether fread() wrote past the end of the block.                        *)
(*                                                                         *)
(* The states of a file: fopen() fails ("missing"); the first fseek()      *)
(* fails ("unseekable"); ftell() returns 0 ("empty"); ftell() fails and    *)
(* returns -1 ("untellable"); the second fseek() fails ("unrewindable");   *)
(* or all succeed ("readable").                                            *)
(***************************************************************************)
\* (size_t) -1, the value n takes when ftell() returns -1.
SIZE_MAX == -1

\* n + 1 in size_t: SIZE_MAX + 1 wraps to 0.
SizePlusOne(n) == IF n = SIZE_MAX THEN 0 ELSE n + 1

\* n = (size_t) ftell(fp)
ftell(fs) == IF fs.state = "untellable" THEN SIZE_MAX ELSE fs.len

FileStates ==
    {[state |-> st, len |-> 0] :
        st \in {"missing", "unseekable", "empty", "unrewindable"}}
    \cup {[state |-> st, len |-> k] :
             st \in {"readable", "untellable"}, k \in 1..MaxFileLen}

read_shader_source(stage, fs, id) ==
    CASE fs.state = "missing" ->
            \* fopen() fails
            {[p |-> NULL, ev |-> <<EvPrint("Failed to open")>>,
              overrun |-> FALSE]}
      [] fs.state \in {"unseekable", "unrewindable"} \/ ftell(fs) = 0 ->
            \* an fseek() fails, or ftell() returns 0
            {[p |-> NULL, ev |-> <<>>, overrun |-> FALSE]}
      [] ftell(fs) = SIZE_MAX ->
            \* calloc(0, 1) returns NULL or a block of no bytes; fread(p, 1,
            \* SIZE_MAX, fp) then writes the file past the end of that
            \* block
            {[p |-> NULL, ev |-> <<>>, overrun |-> FALSE],
             [p |-> id, overrun |-> TRUE,
              ev |-> <<EvCalloc(stage, id, SizePlusOne(ftell(fs)))>>]}
      [] OTHER ->
            \* calloc(n + 1, 1) fails, or returns the buffer fread() fills
            {[p |-> NULL, ev |-> <<>>, overrun |-> FALSE],
             [p |-> id, overrun |-> FALSE,
              ev |-> <<EvCalloc(stage, id, SizePlusOne(ftell(fs)))>>]}

(***************************************************************************)
(* report_shader_status(shader) and report_program_status(program).  s and *)
(* n are the status and the log length the driver reports, mem whether     *)
(* calloc() succeeds, id the buffer it then returns.  [ok, ev].            *)
(***************************************************************************)
\* A slip: the log buffer never freed.
report_shader_status_leak(stage, shader, s, n, mem, id) ==
    [ok |-> s,
     ev |-> <<EvShaderiv(stage, shader, s, n)>> \o
            (IF ~s /\ mem
             THEN <<EvCalloc("log", id, n + 1), EvShaderInfoLog(shader, n, id),
                    EvPrint("Shader Error:")>>
             ELSE <<>>)]

report_shader_status(stage, shader, s, n, mem, id) ==
    [ok |-> s,
     ev |-> <<EvShaderiv(stage, shader, s, n)>> \o
            (IF ~s /\ mem
             THEN <<EvCalloc("log", id, n + 1), EvShaderInfoLog(shader, n, id),
                    EvPrint("Shader Error:"), EvFree(id)>>
             ELSE <<>>)]

report_program_status(prog, s, n, mem, id) ==
    [ok |-> s,
     ev |-> <<EvProgramiv(prog, s, n)>> \o
            (IF ~s /\ mem
             THEN <<EvCalloc("log", id, n + 1), EvProgramInfoLog(prog, n, id),
                    EvPrint("Program Error:"), EvFree(id)>>
             ELSE <<>>)]

\* The buffers a run of events takes from calloc().
Allocated(ev) == Cardinality({i \in 1..Len(ev) : ev[i].op = "calloc"})

(***************************************************************************)
(* init_shader(type, source).  shader is the name glCreateShader() returns *)
(* (0 when it fails).  [ret, ev, objects].                                 *)
(***************************************************************************)
\* A slip: the shader that failed to compile is not deleted.
init_shader_keep(stage, source, o, shader, s, n, mem, id) ==
    IF shader # 0
    THEN LET r == report_shader_status(stage, shader, s, n, mem, id)
             head == <<EvCreateShader(stage, shader),
                       EvShaderSource(stage, shader, source),
                       EvCompileShader(stage, shader)>> \o r.ev
             o1 == glCompileShader(glCreateShader(o, shader), shader, s)
         IN  [ret |-> IF r.ok THEN shader ELSE 0, ev |-> head, objects |-> o1]
    ELSE [ret |-> 0, ev |-> <<EvCreateShader(stage, 0)>>, objects |-> o]

init_shader(stage, source, o, shader, s, n, mem, id) ==
    IF shader # 0
    THEN LET r == report_shader_status(stage, shader, s, n, mem, id)
             head == <<EvCreateShader(stage, shader),
                       EvShaderSource(stage, shader, source),
                       EvCompileShader(stage, shader)>> \o r.ev
             o1 == glCompileShader(glCreateShader(o, shader), shader, s)
         IN  IF r.ok
             THEN [ret |-> shader, ev |-> head, objects |-> o1]
             ELSE [ret |-> 0, ev |-> Append(head, EvDeleteShader(shader)),
                   objects |-> glDeleteShader(o1, shader)]
    ELSE [ret |-> 0, ev |-> <<EvCreateShader(stage, 0)>>, objects |-> o]

(***************************************************************************)
(* init_program(vert_shader, frag_shader).  prog is the name               *)
(* glCreateProgram() returns (0 when it fails).  [ret, ev, objects].       *)
(***************************************************************************)
\* A slip: the program returned whatever its link status.
init_program_link_unchecked(vs, fs, o, prog, s, n, mem, id) ==
    IF prog # 0
    THEN LET r == report_program_status(prog, s, n, mem, id)
             o1 == glLinkProgram(
                       glAttachShader(
                           glAttachShader(glCreateProgram(o, prog), prog, vs),
                           prog, fs),
                       prog, s)
         IN  [ret |-> prog,
              ev |-> <<EvCreateProgram(prog), EvAttachShader(prog, vs),
                       EvAttachShader(prog, fs), EvLinkProgram(prog)>> \o r.ev,
              objects |-> o1]
    ELSE [ret |-> 0, ev |-> <<EvCreateProgram(0)>>, objects |-> o]

init_program_link(vs, fs, o, prog, s, n, mem, id) ==
    IF prog # 0
    THEN LET r == report_program_status(prog, s, n, mem, id)
             head == <<EvCreateProgram(prog), EvAttachShader(prog, vs),
                       EvAttachShader(prog, fs), EvLinkProgram(prog)>> \o r.ev
             o1 == glLinkProgram(
                       glAttachShader(
                           glAttachShader(glCreateProgram(o, prog), prog, vs),
                           prog, fs),
                       prog, s)
         IN  IF r.ok
             THEN [ret |-> prog, ev |-> head, objects |-> o1]
             ELSE [ret |-> 0, ev |-> Append(head, EvDeleteProgram(prog)),
                   objects |-> glDeleteProgram(o1, prog)]
    ELSE [ret |-> 0, ev |-> <<EvCreateProgram(0)>>, objects |-> o]

(***************************************************************************)
(* init_program(vert_name, frag_name), one action per statement.           *)
(***************************************************************************)
\* A slip: || for && in the test of the two sources.
either_source(vs, fs) == vs # NULL \/ fs # NULL

\* if (vert_source && frag_source)
both_sources(vs, fs) == vs # NULL /\ fs # NULL

\* A slip: || for && in the test of the two shaders.
either_shader(vs, fs) == vs # 0 \/ fs # 0

\* if (vert_shader && frag_shader)
both_shaders(vs, fs) == vs # 0 /\ fs # 0

BuildInit ==
    /\ pc = "read_vert"
    /\ files \in [vert : FileStates, frag : FileStates]
    /\ vert_source = NULL /\ frag_source = NULL
    /\ vert_shader = 0 /\ frag_shader = 0
    /\ program = 0
    /\ result = 0
    /\ objects = [h \in Names |-> NoObject]
    /\ nbuf = 0
    /\ heap = "intact"
    /\ trace = <<>>

BuildIdle ==
    /\ pc = "idle"
    /\ files = NoValue
    /\ vert_source = NULL /\ frag_source = NULL
    /\ vert_shader = 0 /\ frag_shader = 0
    /\ program = 0
    /\ result = 0
    /\ objects = NoValue
    /\ nbuf = 0
    /\ heap = "intact"
    /\ trace = <<>>

(***************************************************************************)
(* The overrun of fread() is undefined behaviour.  The process may die in  *)
(* the call that overran, or run on with a corrupt heap and die in any     *)
(* later call of the attempt (the allocator aborts in a calloc(), a free() *)
(* or an fclose(), the driver allocates too), or never.  Lost(ev, least)   *)
(* is the step that dies: of the calls ev the step would have made, the    *)
(* first k were made, the process died in the last of them, and its        *)
(* driver objects went with it.                                            *)
(***************************************************************************)
Prefixes(ev, least) == {SubSeq(ev, 1, k) : k \in least..Len(ev)}

Lost(ev, least) ==
    /\ \E made \in Prefixes(ev, least) :
          /\ trace' = trace \o made
          /\ nbuf' = nbuf + Allocated(made)
    /\ pc' = "lost"
    /\ objects' = [h \in Names |-> NoObject]
    /\ UNCHANGED <<files, vert_source, frag_source, vert_shader, frag_shader,
                   program, result>>

\* char *vert_source = read_shader_source(vert_name);
ReadVert ==
    /\ pc = "read_vert"
    /\ \E r \in read_shader_source("vert", files.vert, nbuf + 1) :
          /\ heap' = IF r.overrun THEN "corrupt" ELSE heap
          /\ \/ /\ vert_source' = r.p
                /\ trace' = trace \o r.ev
                /\ nbuf' = nbuf + Allocated(r.ev)
                /\ pc' = "read_frag"
                /\ UNCHANGED <<files, frag_source, vert_shader, frag_shader,
                               program, result, objects>>
             \/ /\ r.overrun
                /\ Lost(r.ev, 1)
    /\ UNCHANGED <<algebra_vars, check_vars>>

\* char *frag_source = read_shader_source(frag_name);
\* if (vert_source && frag_source)
ReadFrag ==
    /\ pc = "read_frag"
    /\ \E r \in read_shader_source("frag", files.frag, nbuf + 1) :
          /\ heap' = IF r.overrun THEN "corrupt" ELSE heap
          /\ \/ /\ frag_source' = r.p
                /\ trace' = trace \o r.ev
                /\ nbuf' = nbuf + Allocated(r.ev)
                /\ pc' = IF both_sources(vert_source, r.p)
                         THEN "init_vert" ELSE "free_frag"
                /\ UNCHANGED <<files, vert_source, vert_shader, frag_shader,
                               program, result, objects>>
             \/ /\ heap = "corrupt"
                /\ Lost(r.ev, 0)
             \/ /\ heap = "intact" /\ r.overrun
                /\ Lost(r.ev, 1)
    /\ UNCHANGED <<algebra_vars, check_vars>>

\* GLuint vert_shader = init_shader(GL_VERTEX_SHADER, vert_source);
InitVert ==
    /\ pc = "init_vert"
    /\ \E shader \in {0} \cup FreeNames(objects), s \in BOOLEAN,
          n \in 0..MaxLogLen, mem \in BOOLEAN :
          LET r == init_shader("vert", vert_source, objects, shader, s, n,
                               mem, nbuf + 1)
          IN  \/ /\ vert_shader' = r.ret
                 /\ trace' = trace \o r.ev
                 /\ objects' = r.objects
                 /\ nbuf' = nbuf + Allocated(r.ev)
                 /\ pc' = "init_frag"
                 /\ UNCHANGED <<files, vert_source, frag_source, frag_shader,
                                program, result>>
              \/ /\ heap = "corrupt"
                 /\ Lost(r.ev, 1)
    /\ UNCHANGED heap
    /\ UNCHANGED <<algebra_vars, check_vars>>

\* GLuint frag_shader = init_shader(GL_FRAGMENT_SHADER, frag_source);
\* if (vert_shader && frag_shader)
InitFrag ==
    /\ pc = "init_frag"
    /\ \E shader \in {0} \cup FreeNames(objects), s \in BOOLEAN,
          n \in 0..MaxLogLen, mem \in BOOLEAN :
          LET r == init_shader("frag", frag_source, objects, shader, s, n,
                               mem, nbuf + 1)
          IN  \/ /\ frag_shader' = r.ret
                 /\ trace' = trace \o r.ev
                 /\ objects' = r.objects
                 /\ nbuf' = nbuf + Allocated(r.ev)
                 /\ pc' = IF both_shaders(vert_shader, r.ret)
                          THEN "link" ELSE "delete_frag"
                 /\ UNCHANGED <<files, vert_source, frag_source, vert_shader,
                                program, result>>
              \/ /\ heap = "corrupt"
                 /\ Lost(r.ev, 1)
    /\ UNCHANGED heap
    /\ UNCHANGED <<algebra_vars, check_vars>>

\* program = init_program(vert_shader, frag_shader);
Link ==
    /\ pc = "link"
    /\ \E prog \in {0} \cup FreeNames(objects), s \in BOOLEAN,
          n \in 0..MaxLogLen, mem \in BOOLEAN :
          LET r == init_program_link(vert_shader, frag_shader, objects, prog,
                                     s, n, mem, nbuf + 1)
          IN  \/ /\ program' = r.ret
                 /\ trace' = trace \o r.ev
                 /\ objects' = r.objects
                 /\ nbuf' = nbuf + Allocated(r.ev)
                 /\ pc' = "delete_frag"
                 /\ UNCHANGED <<files, vert_source, frag_source, vert_shader,
                                frag_shader, result>>
              \/ /\ heap = "corrupt"
                 /\ Lost(r.ev, 1)
    /\ UNCHANGED heap
    /\ UNCHANGED <<algebra_vars, check_vars>>

\* glDeleteShader(frag_shader);
DeleteFrag ==
    /\ pc = "delete_frag"
    /\ \/ /\ trace' = Append(trace, EvDeleteShader(frag_shader))
          /\ objects' = glDeleteShader(objects, frag_shader)
          /\ pc' = "delete_vert"
          /\ UNCHANGED <<files, vert_source, frag_source, vert_shader,
                         frag_shader, program, result, nbuf>>
       \/ /\ heap = "corrupt" /\ frag_shader # 0
          /\ Lost(<<EvDeleteShader(frag_shader)>>, 1)
    /\ UNCHANGED heap
    /\ UNCHANGED <<algebra_vars, check_vars>>

\* glDeleteShader(vert_shader);
DeleteVert ==
    /\ pc = "delete_vert"
    /\ \/ /\ trace' = Append(trace, EvDeleteShader(vert_shader))
          /\ objects' = glDeleteShader(objects, vert_shader)
          /\ pc' = "free_frag"
          /\ UNCHANGED <<files, vert_source, frag_source, vert_shader,
                         frag_shader, program, result, nbuf>>
       \/ /\ heap = "corrupt" /\ vert_shader # 0
          /\ Lost(<<EvDeleteShader(vert_shader)>>, 1)
    /\ UNCHANGED heap
    /\ UNCHANGED <<algebra_vars, check_vars>>

\* free(frag_source);
FreeFrag ==
    /\ pc = "free_frag"
    /\ \/ /\ trace' = Append(trace, EvFree(frag_source))
          /\ pc' = "free_vert"
          /\ UNCHANGED <<files, vert_source, frag_source, vert_shader,
                         frag_shader, program, result, objects, nbuf>>
       \/ /\ heap = "corrupt" /\ frag_source # NULL
          /\ Lost(<<EvFree(frag_source)>>, 1)
    /\ UNCHANGED heap
    /\ UNCHANGED <<algebra_vars, check_vars>>

\* free(vert_source);
FreeVert ==
    /\ pc = "free_vert"
    /\ \/ /\ trace' = Append(trace, EvFree(vert_source))
          /\ pc' = "return"
          /\ UNCHANGED <<files, vert_source, frag_source, vert_shader,
                         frag_shader, program, result, objects, nbuf>>
       \/ /\ heap = "corrupt" /\ vert_source # NULL
          /\ Lost(<<EvFree(vert_source)>>, 1)
    /\ UNCHANGED heap
    /\ UNCHANGED <<algebra_vars, check_vars>>

\* return program;
Return ==
    /\ pc = "return"
    /\ result' = program
    /\ pc' = "done"
    /\ UNCHANGED <<files, vert_source, frag_source, vert_shader, frag_shader,
                   program, objects, nbuf, heap, trace>>
    /\ UNCHANGED <<algebra_vars, check_vars>>

InitBuild == BuildInit /\ NormalIdle /\ PerspIdle /\ CheckIdle

SpecBuild ==
    /\ InitBuild
    /\ [][ReadVert \/ ReadFrag \/ InitVert \/ InitFrag \/ Link \/ DeleteFrag
          \/ DeleteVert \/ FreeFrag \/ FreeVert \/ Return]_vars

InitCheck == CheckInit /\ NormalIdle /\ PerspIdle /\ BuildIdle

SpecCheck ==
    /\ InitCheck
    /\ [][DriverCommand \/ CheckSwitch \/ CheckPrint \/ CheckAbort]_vars

InitPersp == PerspInit /\ NormalIdle /\ CheckIdle /\ BuildIdle

SpecPersp ==
    /\ InitPersp
    /\ [][CallPerspective4 \/ CallPerspective6]_vars

InitNormal == NormalInit /\ PerspIdle /\ CheckIdle /\ BuildIdle

SpecNormal ==
    /\ InitNormal
    /\ [][CallNormal]_vars

(***************************************************************************)
(* Properties of normal().                                                 *)
(***************************************************************************)
\* The determinant of the upper-left 3x3 block, in exact integer arithmetic.
Det3(A) ==
      At(A,0,0) * At(A,1,1) * At(A,2,2) - At(A,0,0) * At(A,1,2) * At(A,2,1)
    + At(A,0,1) * At(A,1,2) * At(A,2,0) - At(A,0,1) * At(A,1,0) * At(A,2,2)
    + At(A,0,2) * At(A,1,0) * At(A,2,1) - At(A,0,2) * At(A,1,1) * At(A,2,0)

\* transpose(X) * A on the upper-left 3x3 block of A, in exact arithmetic.
TransposeTimes(X, A) ==
    [i \in 1..3 |-> [j \in 1..3 |->
        X[1][i] * A[1][j] + X[2][i] * A[2][j] + X[3][i] * A[3][j]]]

\* C6: whenever the upper-left 3x3 block A of M has a non-zero determinant,
\* normal(M) is the inverse transpose of A: transpose(normal(M)) * A is the
\* 3x3 identity.
C6_NormalIsInverseTranspose ==
    (N # NoValue /\ Det3(M) # 0) => TransposeTimes(N, M) = mat3

\* Every product and partial sum of the determinant fits in 24 bits, so
\* every build of normal() evaluates it exactly.
ExactDet(A) ==
    \A i \in 0..2 : \A j \in 0..2 :
        6 * Abs(At(A,i,j)) * Abs(At(A,i,j)) * Abs(At(A,i,j)) < 2^FLT_MANT_DIG

\* C8 as stated: whenever the upper-left 3x3 block of M has determinant
\* zero, normal(M) is the 3x3 identity.
C8_SingularGivesIdentity ==
    (N # NoValue /\ Det3(M) = 0) => N = mat3

\* C8 as amended: normal(M) is the 3x3 identity whenever the determinant as
\* the build evaluated it is zero, which it is in every build for every
\* singular block of integers small enough to be evaluated without
\* rounding.
C8_ZeroFloatDetGivesIdentity ==
    N # NoValue =>
        /\ d = 0 => N = mat3
        /\ (Det3(M) = 0 /\ ExactDet(M)) => (d = 0 /\ N = mat3)

\* normal() has returned the identity for a singular block that is neither
\* the zero matrix nor the identity.
C8_Witness ==
    /\ N # NoValue
    /\ Det3(M) = 0
    /\ ExactDet(M)
    /\ At(M,0,0) = 1 /\ At(M,1,0) = 1 /\ At(M,2,2) = 1
    /\ N = mat3

(***************************************************************************)
(* Properties of perspective().                                            *)
(***************************************************************************)
SameMat4(A, B) == \A i \in 1..4 : \A j \in 1..4 : QEq(A[i][j], B[i][j])

BothPerspectives == P4 # NoValue /\ P6 # NoValue

\* C7 as stated: for every field of view, aspect ratio and n # f, the two
\* overloads return the same matrix, entry by entry, on the symmetric
\* frustum l = -x, r = x, b = -y, t = y.
C7_SameForEveryFrustum ==
    (BothPerspectives /\ ~QEq(frustum.n, frustum.f)) => SameMat4(P4, P6)

\* C7 as amended: the same, for the frustums whose half width x (and with
\* it the half height y) is not zero.
C7_SameForNonDegenerateFrustum ==
    (BothPerspectives /\ ~QEq(frustum.n, frustum.f) /\ ~IsZero(HalfX))
        => SameMat4(P4, P6)

\* A non-degenerate frustum on which both overloads have been applied and
\* whose x and y scales differ.
C7_Witness ==
    /\ BothPerspectives
    /\ ~QEq(frustum.n, frustum.f)
    /\ ~IsZero(HalfX)
    /\ ~QEq(P6[1][1], P6[2][2])
    /\ SameMat4(P4, P6)

(***************************************************************************)
(* Properties of check().                                                  *)
(***************************************************************************)
Recognized ==
    {GL_INVALID_ENUM, GL_INVALID_VALUE, GL_INVALID_OPERATION, GL_OUT_OF_MEMORY}

KindOf(e) ==
    CASE e = GL_INVALID_ENUM      -> "Invalid Enum"
      [] e = GL_INVALID_VALUE     -> "Invalid Value"
      [] e = GL_INVALID_OPERATION -> "Invalid Operation"
      [] e = GL_OUT_OF_MEMORY     -> "Out of Memory"

LastSeen == seen[Len(seen)]

\* The call of check() that is running or ran last has returned.
Returned == process = "running" /\ chk.pc = "idle"

\* C5: check(file, line) terminates the process exactly on the four
\* recognized error codes, after printing the one diagnostic that names the
\* kind and the location; on no error and on every other code it returns
\* and prints nothing.
C5_AbortIffRecognized ==
    /\ \A i \in 1..Len(seen) :
          seen[i][3] \in Recognized => (i = Len(seen) /\ ~Returned)
    /\ ~Returned => (Len(seen) > 0 /\ LastSeen[3] \in Recognized)
    /\ Returned => err_out = <<>>
    /\ process = "aborted" =>
          err_out = << <<LastSeen[1], LastSeen[2], KindOf(LastSeen[3])>> >>
    /\ Len(err_out) <= 1

\* check() has aborted on an out-of-memory error after an earlier call
\* returned on a code the switch has no case for.
C5_Witness ==
    /\ process = "aborted"
    /\ Len(seen) = 2
    /\ seen[1][3] = "GL_INVALID_FRAMEBUFFER_OPERATION"
    /\ seen[2][3] = GL_OUT_OF_MEMORY
    /\ err_out = << <<seen[2][1], seen[2][2], "Out of Memory">> >>

(***************************************************************************)
(* Properties of the build pipeline, read off trace.                       *)
(***************************************************************************)
Done == pc = "done"

Ops(op) == {i \in 1..Len(trace) : trace[i].op = op}

Stages == {"vert", "frag"}

SourceOf(stage) == IF stage = "vert" THEN vert_source ELSE frag_source
ShaderOf(stage) == IF stage = "vert" THEN vert_shader ELSE frag_shader

\* read_shader_source() has returned for the stage.  A process lost inside
\* the call never assigned the source; one lost later has read both.
HasRead(stage) ==
    IF stage = "vert"
    THEN /\ pc # "read_vert"
         /\ pc = "lost" =>
                (vert_source # NULL \/ trace[Len(trace)].stage # "vert")
    ELSE /\ pc \notin {"read_vert", "read_frag"}
         /\ pc = "lost" => (frag_source # NULL \/ Ops("free") # {})

\* init_shader() has been called for the stage.
ShaderTried(stage) ==
    \E i \in Ops("glCreateShader") : trace[i].stage = stage

\* The driver reported compile status true for the stage.
CompileStatus(stage) ==
    \E i \in Ops("glGetShaderiv") : trace[i].stage = stage /\ trace[i].s

\* The driver reported link status true.
LinkStatus == \E i \in Ops("glGetProgramiv") : trace[i].s

\* The shader and program objects the driver created.
ShadersCreated  == {i \in Ops("glCreateShader") : trace[i].h # 0}
ProgramsCreated == {i \in Ops("glCreateProgram") : trace[i].h # 0}

\* The calls of the deleting operation on the object created at i, up to
\* the next time the driver hands out its name.
DeletesOf(i, create, delete) ==
    {j \in Ops(delete) :
        /\ j > i
        /\ trace[j].h = trace[i].h
        /\ ~\E k \in Ops(create) : i < k /\ k < j /\ trace[k].h = trace[i].h}

\* C1: init_program(vert_name, frag_name) returns a non-zero handle exactly
\* when both sources were loaded, both stages reported compile status true
\* and the program reported link status true; the handle names a program
\* that is linked and was never deleted.
C1_NonZeroIffBuilt ==
    Done =>
        /\ (result # 0) <=>
              /\ vert_source # NULL /\ frag_source # NULL
              /\ CompileStatus("vert") /\ CompileStatus("frag")
              /\ LinkStatus
        /\ result # 0 =>
              /\ objects[result].kind = "program"
              /\ objects[result].status
              /\ \A j \in Ops("glDeleteProgram") : trace[j].h # result

\* A build that returned a linked program.
C1_Witness ==
    /\ Done
    /\ result # 0
    /\ LinkStatus

\* C2: when init_program(vert_name, frag_name) returns, every shader object
\* glCreateShader created was passed to glDeleteShader exactly once, and the
\* program object was passed to glDeleteProgram exactly when it is not the
\* one returned (a link failure).
C2_ObjectsReleased ==
    Done =>
        /\ \A i \in ShadersCreated :
              Cardinality(DeletesOf(i, "glCreateShader", "glDeleteShader")) = 1
        /\ \A i \in ProgramsCreated :
              Cardinality(DeletesOf(i, "glCreateProgram", "glDeleteProgram"))
                  = IF trace[i].h = result THEN 0 ELSE 1
        /\ \A i \in ProgramsCreated : (trace[i].h = result) <=> LinkStatus
        /\ \A h \in Names :
              \/ objects[h].kind = "free"
              \/ objects[h].kind = "program" /\ h = result
              \/ objects[h].kind = "shader" /\ objects[h].flagged

\* A build whose link failed after both stages compiled: two shaders and a
\* program were created and all three deleted.
C2_Witness ==
    /\ Done
    /\ Cardinality(ShadersCreated) = 2
    /\ Cardinality(ProgramsCreated) = 1
    /\ ~LinkStatus
    /\ Ops("glDeleteProgram") # {}

\* C3: a stage for which read_shader_source returned no buffer gets no
\* shader object and no compilation, and init_program returns 0.
C3_NoBufferNoShader ==
    \A stage \in Stages :
        (HasRead(stage) /\ SourceOf(stage) = NULL) =>
            /\ ~ShaderTried(stage)
            /\ \A i \in Ops("glCompileShader") : trace[i].stage # stage
            /\ program = 0
            /\ result = 0

\* A finished build whose vertex source was loaded and whose fragment file
\* is empty.
C3_Witness ==
    /\ Done
    /\ vert_source # NULL
    /\ files.frag.state = "empty"
    /\ frag_source = NULL

\* C4: whenever read_shader_source has returned a null buffer, init_shader
\* has returned 0 or init_program has returned 0, a diagnostic was printed
\* earlier in the attempt.
C4_EveryFailurePrints ==
    /\ \A stage \in Stages :
          (/\ HasRead(stage)
           /\ SourceOf(stage) = NULL
           /\ files[stage].state \in {"missing", "empty"}) => Ops("fprintf") # {}
    /\ \A stage \in Stages :
          (ShaderTried(stage) /\ ShaderOf(stage) = 0) => Ops("fprintf") # {}
    /\ (Done /\ result = 0) => Ops("fprintf") # {}

\* A program object was created, both shaders attached to it, and linked.
ProgramLinked ==
    \E c \in ProgramsCreated :
        /\ \A stage \in Stages :
              \E a \in Ops("glAttachShader") :
                  /\ a > c
                  /\ trace[a].h = trace[c].h
                  /\ trace[a].n = ShaderOf(stage)
        /\ \E l \in Ops("glLinkProgram") : l > c /\ trace[l].h = trace[c].h

\* The link step follows the compile attempts of both stages, and nothing
\* is compiled or linked twice.
LinkAfterCompilesOnce ==
    /\ \A l \in Ops("glCreateProgram") \cup Ops("glLinkProgram") :
          \A stage \in Stages :
              \E c \in Ops("glCompileShader") : trace[c].stage = stage /\ c < l
    /\ \A stage \in Stages :
          /\ Cardinality({c \in Ops("glCreateShader") : trace[c].stage = stage}) <= 1
          /\ Cardinality({c \in Ops("glCompileShader") : trace[c].stage = stage}) <= 1
    /\ Cardinality(Ops("glCreateProgram")) <= 1
    /\ Cardinality(Ops("glLinkProgram")) <= 1

\* C9 as stated: a program object is created, attached to and linked if and
\* only if both stages compiled; the link step never precedes a compile
\* attempt, and nothing is compiled or linked twice.
C9_LinkedIffBothCompiled ==
    /\ Done => (ProgramLinked <=> (CompileStatus("vert") /\ CompileStatus("frag")))
    /\ LinkAfterCompilesOnce

\* C9 as amended: glCreateProgram is called if and only if both stages
\* compiled, and the attach and link steps follow exactly when it returns a
\* non-zero name; the rest as stated.
C9_CreateCalledIffBothCompiled ==
    /\ Done =>
          /\ (Ops("glCreateProgram") # {})
                <=> (CompileStatus("vert") /\ CompileStatus("frag"))
          /\ ProgramLinked <=> (ProgramsCreated # {})
          /\ (ProgramsCreated = {}) =>
                Ops("glAttachShader") \cup Ops("glLinkProgram") = {}
    /\ LinkAfterCompilesOnce

\* A build in which both stages compiled and the program was linked.
C9_Witness ==
    /\ Done
    /\ CompileStatus("vert") /\ CompileStatus("frag")
    /\ ProgramLinked

\* The status query a log buffer allocated at i answers.
StatusBefore(i) == IF i > 1 THEN trace[i - 1] ELSE Ev("none", "-", 0, TRUE, 0)

\* C10: when init_program returns, every buffer calloc() returned was freed
\* exactly once; a log buffer holds length + 1 bytes and is allocated only
\* after a status that is false; a source buffer is freed after both compile
\* attempts.
C10_BuffersFreedOnce ==
    Done =>
        /\ \A i \in Ops("calloc") :
              /\ trace[i].h # NULL
              /\ Cardinality({j \in Ops("free") : trace[j].h = trace[i].h}) = 1
              /\ \A j \in Ops("free") : trace[j].h = trace[i].h => j > i
        /\ \A j \in Ops("free") :
              trace[j].h # NULL => \E i \in Ops("calloc") : trace[i].h = trace[j].h
        /\ \A i \in Ops("calloc") :
              trace[i].stage = "log" =>
                  /\ StatusBefore(i).op \in {"glGetShaderiv", "glGetProgramiv"}
                  /\ ~StatusBefore(i).s
                  /\ trace[i].n = StatusBefore(i).n + 1
        /\ \A i \in Ops("glGetShaderiv") \cup Ops("glGetProgramiv") :
              (trace[i].s /\ i < Len(trace)) => trace[i + 1].op # "calloc"
        /\ \A i \in Ops("calloc") :
              trace[i].stage \in Stages =>
                  \A j \in Ops("free") :
                      trace[j].h = trace[i].h =>
                          \A c \in Ops("glShaderSource") \cup Ops("glCompileShader") :
                              c < j

\* A build that allocated both source buffers and the log of a vertex stage
\* that failed to compile with a log of MaxLogLen bytes.
C10_Witness ==
    /\ Done
    /\ vert_source # NULL /\ frag_source # NULL
    /\ \E i \in Ops("calloc") :
          /\ trace[i].stage = "log"
          /\ trace[i].n = MaxLogLen + 1
          /\ StatusBefore(i).stage = "vert"
    /\ CompileStatus("frag")

====
